---------------------------- MODULE Spec2Model ----------------------------
(***************************************************************************)
(* Model of the treatment-method library of Encorcage                      *)
(* (src/bark_calculator/treatment_method and its later revision            *)
(* src/bark_calculator_1/treatment_method).                                *)
(*                                                                         *)
(* Numbers.  A colour channel is an integer percentage 0..100 (1.0 = 100). *)
(* A grey intensity is an integer number of millionths (1.0 = 1000000), so *)
(* that rgb2grey's weights 0.2125, 0.7154, 0.0721 are exact.               *)
(*                                                                         *)
(* Rasters.  A raster is a record [h, w, blk, d]: h x w cells stored       *)
(* row-major in the sequence d (numpy's flat order, 1-based here), every   *)
(* cell standing for a uniform blk x blk block of pixels.  Its numpy shape *)
(* is (h*blk, w*blk).  rescale(image, 1/8) of skimage <= 0.14 (the only    *)
(* releases that still export threshold_adaptive, which methods.py         *)
(* imports) samples without anti-aliasing at the block centres, so on a    *)
(* raster with blk = 8 it returns the same cells with blk = 1.             *)
(***************************************************************************)
EXTENDS Integers, Sequences, FiniteSets, TLC

VARIABLES
    rev,      \* 0: src/bark_calculator, 1: src/bark_calculator_1
    heap,     \* the objects constructed so far, in construction order
    arrays,   \* the arrays the caller holds, by reference
    call      \* the last completed call: operation, arguments, outcome

vars == <<rev, heap, arrays, call>>

----------------------------------------------------------------------------
(* Bounds of the model.                                                    *)

MaxSide == 3
MaxPainted == 1

----------------------------------------------------------------------------
(* Generic helpers.                                                        *)

RECURSIVE SumSeq(_)
SumSeq(s) == IF s = <<>> THEN 0 ELSE Head(s) + SumSeq(Tail(s))

SetMin(S) == CHOOSE x \in S : \A y \in S : x <= y
SetMax(S) == CHOOSE x \in S : \A y \in S : x >= y

Abs(x) == IF x < 0 THEN -x ELSE x

\* Outcomes of a call: a returned value or a raised exception.
Return(v) == [kind |-> "return", value |-> v]
Raise(e) == [kind |-> "raise", exc |-> e]

NoCall == [op |-> "none"]

----------------------------------------------------------------------------
(* Rasters.                                                                *)

Cells(im) == 1 .. (im.h * im.w)
RowOf(im, k) == ((k - 1) \div im.w) + 1
ColOf(im, k) == ((k - 1) % im.w) + 1
Idx(im, i, j) == (i - 1) * im.w + j
Shape(im) == <<im.h * im.blk, im.w * im.blk>>

\* Python values carry their type in the field py: an ndarray (a raster),
\* a list, None, or a reference to an object of the heap.
Raster(h, w, blk, d) ==
    [py |-> "ndarray", h |-> h, w |-> w, blk |-> blk, d |-> d]
PyList(items) == [py |-> "list", items |-> items]
PyNone == [py |-> "None"]
PyRef(n) == [py |-> "object", ref |-> n]

\* A colour <<r, g, b>>; the greys lie on the axis r = g = b.
Grey3(v) == <<v, v, v>>
Black == Grey3(0)

\* An h x w raster of colour base with the cells of paint (a function from
\* flat indices to colours) overwritten.
Painted(h, w, blk, base, paint) ==
    Raster(h, w, blk,
           [k \in 1 .. (h * w) |->
               IF k \in DOMAIN paint THEN paint[k] ELSE base])

\* The subsets of S of at most n elements.
RECURSIVE SubsetsUpTo(_, _)
SubsetsUpTo(S, n) ==
    IF n = 0 THEN { {} }
    ELSE LET smaller == SubsetsUpTo(S, n - 1)
         IN  smaller \cup { T \cup {x} : T \in smaller, x \in S }

PaintedImages(h, w, blk, bases, colours, maxPainted) ==
    { Painted(h, w, blk, base, paint) :
        base \in bases,
        paint \in UNION { [S -> colours] :
                            S \in SubsetsUpTo(1 .. (h * w), maxPainted) } }

----------------------------------------------------------------------------
(* skimage.color.rgb2grey and BlackMask.make_mask.                         *)

\* rgb2grey of one colour, in millionths: 0.2125 R + 0.7154 G + 0.0721 B.
rgb2grey(c) == 2125 * c[1] + 7154 * c[2] + 721 * c[3]

GreyImage(im) == [im EXCEPT !.d = [k \in Cells(im) |-> rgb2grey(im.d[k])]]

\* black_image < 0.05
DarkPoint == 50000
\* np.mean(black_image, axis=1) < 10 ** -1, as sum < 0.1 * width
DarkLine == 100000

RowSum(g, i) == SumSeq([j \in 1 .. g.w |-> g.d[Idx(g, i, j)]])

black_points(g) == { k \in Cells(g) : g.d[k] < DarkPoint }
black_lines(g) == { i \in 1 .. g.h : RowSum(g, i) < DarkLine * g.w }

\* make_mask without its black_lines step.
make_mask_pointsonly(image) ==
    LET black_image == GreyImage(image)
        ones == [k \in Cells(image) |-> TRUE]
    IN  [image EXCEPT !.d = [k \in Cells(image) |->
            IF k \in black_points(black_image) THEN FALSE ELSE ones[k]]]

\* A mask allocated as final_image is: np.ones((shape[0], shape[0])).
make_mask_square(image) ==
    Raster(image.h, image.h, image.blk,
           [k \in 1 .. (image.h * image.h) |-> TRUE])

make_mask(image) ==
    LET black_image == GreyImage(image)
        ones == [k \in Cells(image) |-> TRUE]
        m1 == [k \in Cells(image) |->
                  IF k \in black_points(black_image) THEN FALSE ELSE ones[k]]
        m2 == [k \in Cells(image) |->
                  IF RowOf(image, k) \in black_lines(black_image)
                  THEN FALSE ELSE m1[k]]
    IN  [image EXCEPT !.d = m2]

----------------------------------------------------------------------------
(* Specification SpecMask: BlackMask.make_mask on rasters of any shape.    *)

\* Colours that straddle both thresholds: black, two greys around 0.05,
\* a grey of 0.25 (bright, yet a third of it is below the line threshold),
\* mid-grey, and a saturated blue whose grey intensity is 0.043.
MaskPalette ==
    { Black, Grey3(4), Grey3(5), Grey3(25), Grey3(50), <<0, 0, 60>> }

\* The backgrounds: black, a grey at the point threshold (whose rows lie
\* below the line threshold), and mid-grey.
MaskBases == { Black, Grey3(5), Grey3(50) }

\* The rasters of sides up to maxSide with up to maxPainted cells painted.
MaskImages(maxSide, maxPainted) ==
    UNION { PaintedImages(h, w, 1, MaskBases, MaskPalette, maxPainted) :
              h \in 1 .. maxSide, w \in 1 .. maxSide }

InitMask ==
    /\ rev \in {0, 1}
    /\ heap = <<>>
    /\ arrays = <<>>
    /\ call = NoCall

\* The caller is single-threaded: it starts a call only after it has taken
\* the result of the previous one.
Idle == call = NoCall

\* The caller takes the result and drops the arrays it passed.
TakeResult ==
    /\ ~Idle
    /\ call' = NoCall
    /\ arrays' = <<>>
    /\ UNCHANGED <<rev, heap>>

\* A call of operation op of class cls on the arrays args, with one of the
\* given effects [out, args]: its outcome and the arrays as it leaves them.
Invoke(op, cls, args, effects) ==
    /\ \E e \in effects :
          /\ call' = [op |-> op, cls |-> cls, args |-> args, out |-> e.out,
                      aux |-> e.aux]
          /\ arrays' = e.args
    /\ UNCHANGED <<rev, heap>>

\* The effects of an operation that writes to none of its arguments.
\* aux records intermediate values of the run that the result does not
\* show (the k-means fit of ColorFilter); NoAux when there are none.
NoAux == [none |-> TRUE]
ReadOnly(args, outs) ==
    { [out |-> o, args |-> args, aux |-> NoAux] : o \in outs }

MakeMask ==
    /\ Idle
    /\ \E image \in MaskImages(MaxSide, MaxPainted) :
            Invoke("make_mask", "BlackMask", <<image>>,
                   ReadOnly(<<image>>, { Return(make_mask(image)) }))

NextMask == MakeMask \/ TakeResult

SpecMask == InitMask /\ [][NextMask]_vars

----------------------------------------------------------------------------
(* The projection step shared by EdgeDetection.filtered_image,             *)
(* ComponentDetection and Thresholding.                                    *)

\* skimage.transform.rescale(image, num/den) on a block raster.
rescale(image, num, den) == [image EXCEPT !.blk = (image.blk * num) \div den]

ValidCells(mask) == { k \in Cells(mask) : mask.d[k] }

OnGreyAxis(image) == \A k \in Cells(image) : image.d[k] = Grey3(image.d[k][1])

\* 1 - minmax_scale(PCA(n_components=1).fit_transform(image[black_mask])),
\* for pixels on the grey axis, as the set of results the build can
\* produce.  The pixels are those of the cells in valid, in flat order.  The
\* first principal axis of collinear pixels is their line, so the
\* projection of a pixel is +-sqrt(3)*(v - mean); minmax_scale maps a
\* constant column to 0 and any other column onto [0, 1]; svd_flip gives
\* the sample of largest |v - mean| a positive projection, and when the
\* darkest and the brightest sample are equally far from the mean rounding
\* decides.  The result is [num, den]: the value of cell k is num[k]/den.
InvertedProjections(image, valid) ==
    LET v(k) == image.d[k][1]
        n == Cardinality(valid)
        total == SumSeq([x \in 1 .. (image.h * image.w) |->
                            IF x \in valid THEN v(x) ELSE 0])
        dev(k) == n * v(k) - total
        vmin == SetMin({ v(k) : k \in valid })
        vmax == SetMax({ v(k) : k \in valid })
        maxdev == SetMax({ Abs(dev(k)) : k \in valid })
        signs == { IF dev(k) > 0 THEN 1 ELSE -1 :
                     k \in { x \in valid : Abs(dev(x)) = maxdev } }
    IN  IF vmin = vmax
        THEN { [num |-> [k \in valid |-> 1], den |-> 1] }
        ELSE { [num |-> [k \in valid |->
                            IF sgn = 1 THEN vmax - v(k) ELSE v(k) - vmin],
                den |-> vmax - vmin] : sgn \in signs }

\* final_image = np.zeros((image.shape[0], image.shape[0]));
\* np.put(final_image, np.where(black_mask.flatten()), black_white_pca):
\* an h x h raster that receives the projection of valid cell k at flat
\* position k.  np.put raises IndexError for a position outside the buffer.
PutOutOfBounds(image, valid) == \E k \in valid : k > image.h * image.h

FinalImage(image, valid, proj) ==
    [py |-> "ndarray", h |-> image.h, w |-> image.h, blk |-> image.blk,
     den |-> proj.den,
     d |-> [k \in 1 .. (image.h * image.h) |->
              IF k \in valid THEN proj.num[k] ELSE 0]]

\* The step with an empty selection passed over in silence: the raster of
\* zeros is returned.
ProjectionStep_silent(image, black_mask) ==
    LET valid == ValidCells(black_mask)
    IN  IF valid = {}
        THEN { Return(FinalImage(image, {}, [den |-> 1, num |-> <<>>])) }
        ELSE IF PutOutOfBounds(image, valid) THEN { Raise("IndexError") }
        ELSE { Return(FinalImage(image, valid, proj)) :
                 proj \in InvertedProjections(image, valid) }

\* The outcomes of the shared step: the exception it raises, or the
\* final_image rasters it can produce.
\* pca.fit_transform raises ValueError on an empty selection.
ProjectionStep(image, black_mask) ==
    LET valid == ValidCells(black_mask)
    IN  IF valid = {} THEN { Raise("ValueError") }
        ELSE IF PutOutOfBounds(image, valid) THEN { Raise("IndexError") }
        ELSE { Return(FinalImage(image, valid, proj)) :
                 proj \in InvertedProjections(image, valid) }

----------------------------------------------------------------------------
(* skimage.segmentation.watershed(edges, markers, mask=black_mask).        *)

Neighbours(im, k) ==
    { x \in Cells(im) :
        \/ RowOf(im, x) = RowOf(im, k) /\ Abs(ColOf(im, x) - ColOf(im, k)) = 1
        \/ ColOf(im, x) = ColOf(im, k) /\ Abs(RowOf(im, x) - RowOf(im, k)) = 1 }

RECURSIVE Flood(_, _, _)
Flood(im, region, reached) ==
    LET more == { x \in region \ reached :
                    Neighbours(im, x) \cap reached # {} }
    IN  IF more = {} THEN reached ELSE Flood(im, region, reached \cup more)

\* The labellings a flooding can end in, whatever the elevation map: a
\* seed keeps its label, a cell of the mask takes the label of a seed the
\* flood can reach it from within the mask (connectivity 1), and a cell
\* outside the mask, or one no seed reaches, stays 0.
watershed(markers, mask) ==
    LET region == ValidCells(mask)
        seeds == { k \in region : markers.d[k] # 0 }
        labels == { markers.d[k] : k \in seeds }
        basin(l) == Flood(mask, region, { k \in seeds : markers.d[k] = l })
        choices(k) ==
            IF k \notin region THEN {0}
            ELSE IF k \in seeds THEN { markers.d[k] }
            ELSE LET ls == { l \in labels : k \in basin(l) }
                 IN  IF ls = {} THEN {0} ELSE ls
        free == { k \in Cells(mask) : Cardinality(choices(k)) > 1 }
        only(k) == CHOOSE l \in choices(k) : TRUE
    IN  { [markers EXCEPT !.d = [k \in Cells(mask) |->
                                    IF k \in free THEN g[k] ELSE only(k)]] :
            g \in { f \in [free -> labels] :
                      \A k \in free : f[k] \in choices(k) } }

----------------------------------------------------------------------------
(* ComponentDetection.                                                     *)

\* markers[final_image > 0.6] = 2; markers[final_image < 0.45] = 1
HighCut == 60
LowCut == 45

\* The two marker labels exchanged.
ThresholdMarkers_swapped(final_image) ==
    [final_image EXCEPT !.d = [k \in Cells(final_image) |->
        IF 100 * final_image.d[k] < LowCut * final_image.den THEN 2
        ELSE IF 100 * final_image.d[k] > HighCut * final_image.den THEN 1
        ELSE 0]]

\* The markers without the unlabelled band between the two cuts.
ThresholdMarkers_noband(final_image) ==
    [final_image EXCEPT !.d = [k \in Cells(final_image) |->
        IF 100 * final_image.d[k] < LowCut * final_image.den THEN 1 ELSE 2]]

ThresholdMarkers(final_image) ==
    [final_image EXCEPT !.d = [k \in Cells(final_image) |->
        IF 100 * final_image.d[k] < LowCut * final_image.den THEN 1
        ELSE IF 100 * final_image.d[k] > HighCut * final_image.den THEN 2
        ELSE 0]]

\* markers[~black_mask] = 0: IndexError unless the shapes agree.
ShapesAgree(a, b) == a.h = b.h /\ a.w = b.w

ZeroOutside(markers, black_mask) ==
    [markers EXCEPT !.d = [k \in Cells(markers) |->
        IF black_mask.d[k] THEN markers.d[k] ELSE 0]]

\* grey2rgb(labels / 2), in percent.
WsImage(labels) ==
    Raster(labels.h, labels.w, labels.blk,
           [k \in Cells(labels) |-> Grey3(labels.d[k] * 50)])

\* (image + ws_image) / 2: the cell-wise sums, to be divided by div.
Blend(image, ws_image) ==
    [py |-> "ndarray", h |-> image.h, w |-> image.w, blk |-> image.blk,
     div |-> 2,
     d |-> [k \in Cells(image) |->
              [c \in 1 .. 3 |-> image.d[k][c] + ws_image.d[k][c]]]]

\* The runs of ComponentDetection.treat_image: the outcome, with the
\* final_image, the mask and the markers handed to the watershed when the
\* run gets that far.
ComponentDetection_runs(image0) ==
    LET image == rescale(image0, 1, 8)
        black_mask == make_mask(image)
        finish(final_image) ==
            LET markers == ThresholdMarkers(final_image)
            IN  IF ~ShapesAgree(markers, black_mask)
                THEN { [out |-> Raise("IndexError"), aux |-> NoAux] }
                ELSE { [out |-> Return(PyList(<<image,
                                    Blend(image, WsImage(ws)), WsImage(ws)>>)),
                        aux |-> [py |-> "watershed",
                                 final_image |-> final_image,
                                 black_mask |-> black_mask,
                                 markers |-> ZeroOutside(markers, black_mask)]] :
                         ws \in watershed(ZeroOutside(markers, black_mask),
                                          black_mask) }
    IN  UNION { IF o.kind = "raise" THEN { [out |-> o, aux |-> NoAux] }
                ELSE finish(o.value) :
                  o \in ProjectionStep(image, black_mask) }

ComponentDetection_treat_image(image0) ==
    { r.out : r \in ComponentDetection_runs(image0) }

\* treat_image_with_markers(image, markers): markers is the caller's
\* array, and markers[~black_mask] = 0 writes into it.  An effect is the
\* outcome and the caller's arrays <<image, markers>> after the call.
\* watershed raises ValueError when markers and edges differ in shape.
ComponentDetection_treat_image_with_markers(image0, markers0) ==
    LET image == rescale(image0, 1, 8)
        black_mask == make_mask(image)
        finish(final_image) ==
            IF ~ShapesAgree(markers0, black_mask)
            THEN { [out |-> Raise("IndexError"), aux |-> NoAux,
                    args |-> <<image0, markers0>>] }
            ELSE LET markers == ZeroOutside(markers0, black_mask)
                 IN  IF ~ShapesAgree(markers, final_image)
                     THEN { [out |-> Raise("ValueError"), aux |-> NoAux,
                             args |-> <<image0, markers>>] }
                     ELSE { [out |-> Return(PyList(<<image,
                                         Blend(image, WsImage(ws)),
                                         WsImage(ws)>>)),
                             aux |-> NoAux,
                             args |-> <<image0, markers>>] :
                              ws \in watershed(markers, black_mask) }
    IN  UNION { IF o.kind = "raise"
                THEN { [out |-> o, aux |-> NoAux,
                        args |-> <<image0, markers0>>] }
                ELSE finish(o.value) :
                  o \in ProjectionStep(image, black_mask) }

----------------------------------------------------------------------------
(* BlackFilter.                                                            *)

\* black_image < 0.15
FilterDarkPoint == 150000
\* masked_image[~black_mask] = 100
FilterFill == 10000

\* remove_black_regions: the mask is built per channel, and the fill is
\* written into np.copy(image), never into image.
remove_black_regions(image) ==
    LET black_image == GreyImage(image)
        dark == { k \in Cells(image) : black_image.d[k] < FilterDarkPoint }
        lines == black_lines(black_image)
        black_mask == [k \in Cells(image) |->
                          ~(k \in dark \/ RowOf(image, k) \in lines)]
        masked_image == image
    IN  [masked_image EXCEPT !.d = [k \in Cells(image) |->
            IF black_mask[k] THEN masked_image.d[k] ELSE Grey3(FilterFill)]]

BlackFilter_treat_image(image) ==
    { Return(PyList(<<image, remove_black_regions(image)>>)) }

----------------------------------------------------------------------------
(* ColorFilter.                                                            *)

Clusters == 0 .. 3

Colours(image) == { image.d[k] : k \in Cells(image) }

\* KMeans(n_clusters=4, n_init=50).fit_predict(im) on an image of exactly
\* four distinct colours: k-means++ seeds one centre on each colour, so
\* every colour is a cluster and its centre; only the numbering of the
\* clusters is left to the random seeding.
KMeansFits(image) ==
    { [labels |-> [k \in Cells(image) |-> number[image.d[k]]],
       cluster_centers |-> [c \in Clusters |->
            CHOOSE col \in Colours(image) : number[col] = c]] :
        number \in { f \in [Colours(image) -> Clusters] :
                       \A a, b \in Colours(image) : f[a] = f[b] => a = b } }

\* np.linalg.norm(centre) squared.
Norm2(col) == col[1] * col[1] + col[2] * col[2] + col[3] * col[3]

\* np.argsort(norms)[::-1] as a sequence: the clusters by descending norm
\* (the norms of the model's colours are distinct).
sorted_centers_args(centers) ==
    CHOOSE q \in [1 .. 4 -> Clusters] :
        /\ \A a, b \in 1 .. 4 : a # b => q[a] # q[b]
        /\ \A a, b \in 1 .. 4 :
              a < b => Norm2(centers[q[a]]) > Norm2(centers[q[b]])

\* for prev_number, sorted_number in enumerate(sorted_centers_args):
\*     np.put(k_means_4_image, kmeans.labels_ == prev_number, sorted_number)
\* k_means_4_image is a view of kmeans.labels_, so each np.put also edits
\* the labels the next comparison reads.  np.put takes its second argument
\* as integer positions: the boolean array is read as positions 0 (False)
\* and 1 (True), here the flat cells 1 and 2.
RECURSIVE RemapLoop(_, _, _)
RemapLoop(labels, sorted, prev_number) ==
    IF prev_number > 3 THEN labels
    ELSE LET hit == \E k \in DOMAIN labels : labels[k] = prev_number
             miss == \E k \in DOMAIN labels : labels[k] # prev_number
             sorted_number == sorted[prev_number + 1]
             put == [k \in DOMAIN labels |->
                       IF (k = 1 /\ miss) \/ (k = 2 /\ hit)
                       THEN sorted_number ELSE labels[k]]
         IN  RemapLoop(put, sorted, prev_number + 1)

\* grey2rgb(1 - k_means_4_image / k_means_4_image.max()): cell k holds
\* d[k]/den on every channel.
TreatedLabels(image, labels) ==
    LET top == SetMax({ labels[k] : k \in DOMAIN labels })
    IN  [py |-> "ndarray", h |-> image.h, w |-> image.h, blk |-> image.blk,
         den |-> top, d |-> [k \in DOMAIN labels |-> top - labels[k]]]

\* (a + b)/2 of two rasters, kept as the term.
Mean2(a, b) == [py |-> "ndarray", h |-> a.h, w |-> a.w, blk |-> a.blk,
                half_of |-> <<a, b>>]

\* The runs of ColorFilter.treat_image: the outcome, with the k-means fit
\* it drew.  image.reshape((h*h, 3)) raises ValueError unless h*h = h*w,
\* and KMeans raises ValueError when given fewer samples than clusters.
ColorFilter_runs(image0) ==
    LET image == rescale(image0, 1, 8)
    IN  IF image.h * image.h # image.h * image.w
        THEN { [out |-> Raise("ValueError"), aux |-> NoAux] }
        ELSE IF image.h * image.h < Cardinality(Clusters)
        THEN { [out |-> Raise("ValueError"), aux |-> NoAux] }
        ELSE { LET sorted == sorted_centers_args(fit.cluster_centers)
                   k_means_4_image == RemapLoop(fit.labels, sorted, 0)
                   treated == TreatedLabels(image, k_means_4_image)
               IN  [out |-> Return(PyList(<<image, Mean2(treated, image),
                                treated,
                                Raster(image.h, image.h, image.blk,
                                       k_means_4_image)>>)),
                    aux |-> [py |-> "KMeans", labels |-> fit.labels,
                             cluster_centers |-> fit.cluster_centers,
                             sorted |-> sorted]] :
                 fit \in KMeansFits(image) }

ColorFilter_treat_image(image0) == { r.out : r \in ColorFilter_runs(image0) }

----------------------------------------------------------------------------
(* BlackTrimmer and the later V2 (src/bark_calculator_1).                  *)

\* resize(image, (2048, 2048), order=3)
Canvas == 2048

\* The resized raster: the h x w cells of the image, each now rowpx pixel
\* rows high and colpx pixel columns wide (h and w divide 2048).
resize(image) ==
    [py |-> "ndarray", h |-> image.h, w |-> image.w,
     rowpx |-> Canvas \div image.h, colpx |-> Canvas \div image.w,
     d |-> image.d]

PixelRows(im) == im.h * im.rowpx
PixelCols(im) == im.w * im.colpx

\* The cell row that holds pixel row r (0-based, as numpy counts).
BandOf(im, r) == (r \div im.rowpx) + 1

\* np.sum(image, axis=-1) > 1e-3, per cell: the channels are percentages.
Summed(im, k) == 10 * (im.d[k][1] + im.d[k][2] + im.d[k][3]) > 1

\* The number of pixels of pixel row r whose channel sum is above 1e-3.
Coverage(im, r) ==
    im.colpx * Cardinality({ j \in 1 .. im.w :
                               Summed(im, Idx(im, BandOf(im, r), j)) })

\* np.mean(summed_image, axis=-1) > 0.85
clear_enough(im, r) == 100 * Coverage(im, r) > 85 * PixelCols(im)

\* np.argmax of a boolean vector: the first True position, 0 when none is.
ArgMax(S) == IF S = {} THEN 0 ELSE SetMin(S)

\* BlackTrimmer.make_trimmer: <<first_idx, last_idx>>.
\* last_idx = 2048 - np.argmax(clear_enough_lines_idx[::-1])
make_trimmer(image) ==
    LET n == PixelRows(image)
        clear == { r \in { (i - 1) * image.rowpx + x :
                             i \in 1 .. image.h, x \in {0, image.rowpx - 1} } :
                     clear_enough(image, r) }
        first_idx == ArgMax(clear)
        last_idx == Canvas - ArgMax({ (n - 1) - r : r \in clear })
    IN  <<first_idx, last_idx>>

\* image[first_idx:last_idx]: the pixel rows first_idx .. last_idx - 1, an
\* empty raster when there are none.  The model's cuts fall between cells.
RowSlice(im, first_idx, last_idx) ==
    LET lo == first_idx \div im.rowpx
        hi == IF last_idx > first_idx THEN last_idx \div im.rowpx ELSE lo
    IN  [py |-> "ndarray", h |-> hi - lo, w |-> im.w,
         rowpx |-> im.rowpx, colpx |-> im.colpx,
         d |-> [k \in 1 .. ((hi - lo) * im.w) |-> im.d[lo * im.w + k]]]

\* The later V2.treat_image: the outcome, with the indices it cut at.
V2_trim_runs(image0) ==
    LET image == resize(image0)
        idx == make_trimmer(image)
    IN  { [out |-> Return(RowSlice(image, idx[1], idx[2])),
           aux |-> [py |-> "trim", resized |-> image,
                    first_idx |-> idx[1], last_idx |-> idx[2]]] }

V2_trim_treat_image(image0) == { r.out : r \in V2_trim_runs(image0) }

----------------------------------------------------------------------------
(* Specification SpecCD: ComponentDetection on grey-axis block images.     *)

CDSides == 1 .. 3
MaxSeeds == 3

\* Black, the mid-grey 0.5, 0.75 (half-way between 0.5 and 1.0) and white.
GreyPalette == { Grey3(0), Grey3(50), Grey3(75), Grey3(100) }

\* The largest all-mid-grey square with a black corner block, in cells:
\* 8 cells of 8 pixels are the 64 x 64 scenario with its 16 x 16 block.
MaxCorner == 8

\* An n x n mid-grey raster with a k x k black block in the corner
\* (top if top, left if left).
CornerImage(n, k, top, left) ==
    Raster(n, n, 8,
           [x \in 1 .. (n * n) |->
               LET i == ((x - 1) \div n) + 1
                   j == ((x - 1) % n) + 1
               IN  IF /\ (IF top THEN i <= k ELSE i > n - k)
                      /\ (IF left THEN j <= k ELSE j > n - k)
                   THEN Black ELSE Grey3(50)])

CornerImages ==
    UNION { { CornerImage(n, k, top, left) :
                k \in 1 .. (n - 1), top \in BOOLEAN, left \in BOOLEAN } :
            n \in 2 .. MaxCorner }

\* Black or mid-grey rasters with up to maxSeeds cells painted.
CDImages(maxSeeds) ==
    UNION { PaintedImages(h, w, 8, { Black, Grey3(50) }, GreyPalette, maxSeeds) :
              h \in CDSides, w \in CDSides }

\* ComponentDetection is the same code in both revisions (the later one
\* only adds an unused image_type parameter); the model runs revision 0.
InitCD ==
    /\ rev = 0
    /\ heap = <<>>
    /\ arrays = <<>>
    /\ call = NoCall

CDTreatImage ==
    /\ Idle
    /\ \E image \in CDImages(MaxSeeds) :
            Invoke("treat_image", "ComponentDetection", <<image>>,
                   ReadOnly(<<image>>, ComponentDetection_treat_image(image)))

NextCD == CDTreatImage \/ TakeResult

SpecCD == InitCD /\ [][NextCD]_vars

----------------------------------------------------------------------------
(* Specification SpecCorner: ComponentDetection on all-mid-grey squares    *)
(* with a black corner block.                                              *)

InitCorner ==
    /\ rev = 0
    /\ heap = <<>>
    /\ arrays = <<>>
    /\ call = NoCall

CornerTreatImage ==
    /\ Idle
    /\ \E image \in CornerImages :
            Invoke("treat_image", "ComponentDetection", <<image>>,
                   ReadOnly(<<image>>, ComponentDetection_treat_image(image)))

NextCorner == CornerTreatImage \/ TakeResult

SpecCorner == InitCorner /\ [][NextCorner]_vars

----------------------------------------------------------------------------
(* Specification SpecColor: ColorFilter on images of four colours.         *)

\* Colours of pairwise distinct norms; one of them is off the grey axis.
ColorPalette == { Black, Grey3(25), Grey3(75), <<100, 0, 0>> }

ColorImages(maxSeeds) ==
    { im \in UNION { PaintedImages(h, w, 8, { Grey3(50) }, ColorPalette,
                                   maxSeeds) : h \in CDSides, w \in CDSides } :
        Cardinality(Colours(im)) = 4 }

InitColor ==
    /\ rev = 0
    /\ heap = <<>>
    /\ arrays = <<>>
    /\ call = NoCall

ColorFilterTreatImage ==
    /\ Idle
    /\ \E image \in ColorImages(MaxSeeds) :
          Invoke("treat_image", "ColorFilter", <<image>>,
                 { [out |-> r.out, aux |-> r.aux, args |-> <<image>>] :
                     r \in ColorFilter_runs(image) })

NextColor == ColorFilterTreatImage \/ TakeResult

SpecColor == InitColor /\ [][NextColor]_vars

----------------------------------------------------------------------------
(* Specification SpecTrim: the later V2 on images of eight cell columns.   *)

\* A row of eight cells: dark leading cells of the colour dark, then
\* cells of the colour lit.
TrimRow(dark, ndark, lit) ==
    [j \in 1 .. 8 |-> IF j <= ndark THEN dark ELSE lit]

\* All lit, 7/8 lit (above 85%), 6/8 lit (below), all black, and a row
\* of the faintest colour the model has (0.01 per channel, above 1e-3).
TrimRows ==
    { TrimRow(Black, n, Grey3(50)) : n \in {0, 1, 2, 8} }
    \cup { TrimRow(Black, 0, Grey3(1)) }

TrimHeights == {1, 2, 4}

TrimImages ==
    UNION { { Raster(h, 8, 8, [k \in 1 .. (h * 8) |->
                                  rows[((k - 1) \div 8) + 1][((k - 1) % 8) + 1]]) :
                rows \in [1 .. h -> TrimRows] } : h \in TrimHeights }

InitTrim ==
    /\ rev = 1
    /\ heap = <<>>
    /\ arrays = <<>>
    /\ call = NoCall

V2TreatImage ==
    /\ Idle
    /\ \E image \in TrimImages :
          Invoke("treat_image", "V2", <<image>>,
                 { [out |-> r.out, aux |-> r.aux, args |-> <<image>>] :
                     r \in V2_trim_runs(image) })

NextTrim == V2TreatImage \/ TakeResult

SpecTrim == InitTrim /\ [][NextTrim]_vars

----------------------------------------------------------------------------
(* Objects, and build_from_treatment_method_arg (builder.py).              *)

PyStr(s) == [py |-> "str", s |-> s]

\* cls(): the objects a construction adds to the heap h.  EdgeDetection
\* (both revisions) and the later V2 construct a BlackMask in __init__ and
\* keep it as black_masker; every other class adds itself only.
\* The later V2 also keeps its threshold table (in hundredths).
threshold_dict ==
    [epinette_gelee |-> <<50, 65, 40, 60>>,
     epinette_javel |-> <<50, 65, 40, 60>>,
     epinette_non_gelee |-> <<40, 58, 50, 100>>,
     sapin |-> <<52, 64, 50, 70>>]

New(cls, h, r) ==
    IF cls = "EdgeDetection"
    THEN << [cls |-> cls, black_masker |-> PyRef(Len(h) + 2)],
            [cls |-> "BlackMask"] >>
    ELSE IF cls = "V2" /\ r = 1
    THEN << [cls |-> cls, threshold_dict |-> threshold_dict,
             black_masker |-> PyRef(Len(h) + 2)],
            [cls |-> "BlackMask"] >>
    ELSE << [cls |-> cls] >>

\* return cls(): the outcome and the heap after it.
Constructed(cls, h) ==
    [out |-> Return(PyRef(Len(h) + 1)), heap |-> h \o New(cls, h, 0)]

\* The builder with the classes of black_filter and black_mask exchanged.
build_swapped(treatment_method, h) ==
    IF treatment_method = "edge_detection" THEN Constructed("EdgeDetection", h)
    ELSE IF treatment_method = "id" THEN Constructed("Identity", h)
    ELSE IF treatment_method = "black_filter" THEN Constructed("BlackMask", h)
    ELSE IF treatment_method = "black_mask" THEN Constructed("BlackFilter", h)
    ELSE IF treatment_method = "color_filter" THEN Constructed("ColorFilter", h)
    ELSE IF treatment_method = "component_detection"
         THEN Constructed("ComponentDetection", h)
    ELSE IF treatment_method = "threshold" THEN Constructed("Thresholding", h)
    ELSE [out |-> Return(PyNone), heap |-> h]

\* Seven ifs, each returning a new object; a name none of them matches
\* falls off the end of the function, which returns None.
build_from_treatment_method_arg(treatment_method, h) ==
    IF treatment_method = "edge_detection" THEN Constructed("EdgeDetection", h)
    ELSE IF treatment_method = "id" THEN Constructed("Identity", h)
    ELSE IF treatment_method = "black_filter" THEN Constructed("BlackFilter", h)
    ELSE IF treatment_method = "black_mask" THEN Constructed("BlackMask", h)
    ELSE IF treatment_method = "color_filter" THEN Constructed("ColorFilter", h)
    ELSE IF treatment_method = "component_detection"
         THEN Constructed("ComponentDetection", h)
    ELSE IF treatment_method = "threshold" THEN Constructed("Thresholding", h)
    ELSE [out |-> Return(PyNone), heap |-> h]

----------------------------------------------------------------------------
(* Specification SpecBuilder: a caller building strategies by name.        *)

\* The seven names of builder.py, and names it does not know: names of
\* strategies that exist but have no entry, a name in another case, a
\* name with a blank, and the empty string.
BuilderArgs ==
    { "edge_detection", "id", "black_filter", "black_mask", "color_filter",
      "component_detection", "threshold",
      "grey", "entropy", "v1", "Threshold", "id ", "" }

\* The caller keeps at most MaxObjects objects.
MaxObjects == 3

InitBuilder ==
    /\ rev = 0
    /\ heap = <<>>
    /\ arrays = <<>>
    /\ call = NoCall

Build ==
    /\ Idle
    /\ \E name \in BuilderArgs :
          LET b == build_from_treatment_method_arg(name, heap)
          IN  /\ Len(b.heap) <= MaxObjects
              /\ heap' = b.heap
              /\ call' = [op |-> "build_from_treatment_method_arg",
                          cls |-> "builder", args |-> <<PyStr(name)>>,
                          out |-> b.out,
                          aux |-> [py |-> "heap", before |-> heap]]
    /\ UNCHANGED <<rev, arrays>>

NextBuilder == Build \/ TakeResult

SpecBuilder == InitBuilder /\ [][NextBuilder]_vars

----------------------------------------------------------------------------
(* treat_image of every strategy, and TreatmentMethod.treat_images.        *)

\* The result of a library routine the model does not compute, kept as
\* the term routine(of).
Lib(routine, of) == [py |-> "ndarray", lib |-> routine, of |-> of]

\* np.ma.array(data, mask=mask)
MaskedArray(data, mask) == [py |-> "MaskedArray", data |-> data, mask |-> mask]

\* The entries of a masked array that take part in computations and
\* display: numpy.ma hides an entry whose mask value is True.
Visible(masked) == { k \in Cells(masked.mask) : ~masked.mask.d[k] }

Grey_treat_image(image) == { Return(GreyImage(image)) }

\* Identity returning the image twice.
Identity_treat_image_twice(image) == { Return(PyList(<<image, image>>)) }

Identity_treat_image(image) == { Return(PyList(<<image>>)) }

BlackMask_treat_image(image) ==
    { Return(PyList(<<image, MaskedArray(GreyImage(image), make_mask(image))>>)) }

EdgeDetection_treat_image(image0) ==
    LET image == rescale(image0, 1, 8)
        grey == GreyImage(image)
    IN  { IF o.kind = "raise" THEN o
          ELSE Return(PyList(<<grey, Lib("sobel", o.value),
                               Lib("laplace", o.value),
                               Lib("prewitt", o.value),
                               Lib("scharr", o.value),
                               Lib("roberts", o.value)>>)) :
            o \in ProjectionStep(image, make_mask(image)) }

\* The markers without the shift into {1, 2}.
AdaptiveMarkers_unshifted(final_image, passed) ==
    [final_image EXCEPT !.d = [k \in Cells(final_image) |->
        IF k \in passed THEN 1 ELSE 0]]

\* markers = threshold_adaptive(final_image, block_size=35).astype(float);
\* markers += 1: label 2 where the pixel passed the local threshold, label
\* 1 where it did not.
AdaptiveMarkers(final_image, passed) ==
    [final_image EXCEPT !.d = [k \in Cells(final_image) |->
        IF k \in passed THEN 2 ELSE 1]]

\* The runs of Thresholding.treat_image.  Which pixels pass the adaptive
\* threshold is the library's: any set of pixels can (the choice among the
\* invalid pixels does not show, markers[~black_mask] = 0 erases it).
\* markers (the shape of final_image) is indexed with ~black_mask (the
\* shape of the image): IndexError unless the shapes agree.
Thresholding_runs(image0) ==
    LET image == rescale(image0, 1, 8)
        black_mask == make_mask(image)
        finish(final_image) ==
            IF ~ShapesAgree(final_image, black_mask)
            THEN { [out |-> Raise("IndexError"), aux |-> NoAux] }
            ELSE UNION {
                LET markers == ZeroOutside(
                        AdaptiveMarkers(final_image, passed), black_mask)
                IN  { [out |-> Return(PyList(<<final_image, ws_image>>)),
                       aux |-> [py |-> "watershed",
                                final_image |-> final_image,
                                black_mask |-> black_mask,
                                markers |-> markers]] :
                        ws_image \in watershed(markers, black_mask) } :
                  passed \in SUBSET ValidCells(black_mask) }
    IN  UNION { IF o.kind = "raise" THEN { [out |-> o, aux |-> NoAux] }
                ELSE finish(o.value) :
                  o \in ProjectionStep(image, black_mask) }

Thresholding_treat_image(image0) ==
    { r.out : r \in Thresholding_runs(image0) }

\* treated_list = [image], then one entropy image per radius.
EntropyRadii == <<10, 12, 15, 20, 25>>

Entropy_treat_image(image) ==
    LET final_image == GreyImage(image)
    IN  { Return(PyList(<<image>> \o
                        [n \in 1 .. Len(EntropyRadii) |->
                            Lib("entropy", <<final_image, EntropyRadii[n]>>)])) }

Equalizer_treat_image(image) ==
    { Return(Lib("rgb2grey", Lib("equalize_adapthist", image))) }

Upsampling_treat_image(image) == { Return(Lib("rescale", <<image, 4>>)) }

\* The earlier V2 (src/bark_calculator): view_as_blocks(black_white,
\* (16, 16)) raises ValueError unless both sides are multiples of 16, and
\* big_image[ws_copy == 1], with ws_copy resized to 4096 x 4096, raises
\* IndexError unless the image is 4096 x 4096; then six images are returned.
BlockSide == 16
BigSide == 4096

V2_early_treat_image(image) ==
    IF Shape(image)[1] % BlockSide # 0 \/ Shape(image)[2] % BlockSide # 0
    THEN { Raise("ValueError") }
    ELSE IF Shape(image) # <<BigSide, BigSide>>
    THEN { Raise("IndexError") }
    ELSE { Return(PyList(<<Lib("1 - black_white", image),
                           Lib("1 - max_view", image),
                           Lib("ws_copy", image),
                           image,
                           Lib("big_image", image),
                           Lib("big_image_2", image)>>)) }

\* markers_for_component_detection of V1: zeros_like(markers), 2 where
\* markers is at its maximum, then 1 where it is at its minimum.
V1_markers(markers) ==
    LET top == SetMax({ markers.d[k] : k \in Cells(markers) })
        low == SetMin({ markers.d[k] : k \in Cells(markers) })
    IN  [markers EXCEPT !.d = [k \in Cells(markers) |->
            IF markers.d[k] = low THEN 1
            ELSE IF markers.d[k] = top THEN 2 ELSE 0]]

\* V1 of src/bark_calculator: the outputs of ColorFilter but the first
\* and the last, those of ComponentDetection but the first, and the third
\* output of treat_image_with_markers seeded from ColorFilter's labels.
V1_treat_image(image) ==
    UNION { IF cf.kind = "raise" THEN {cf} ELSE
        UNION { IF cd.kind = "raise" THEN {cd} ELSE
            { IF wm.out.kind = "raise" THEN wm.out
              ELSE Return(PyList(<<rescale(image, 1, 8),
                                   cf.value.items[2], cf.value.items[3],
                                   cd.value.items[2], cd.value.items[3],
                                   wm.out.value.items[3]>>)) :
                wm \in ComponentDetection_treat_image_with_markers(
                          image, V1_markers(cf.value.items[4])) } :
            cd \in ComponentDetection_treat_image(image) } :
        cf \in ColorFilter_treat_image(image) }

\* obj.treat_image(image) in src/bark_calculator (r = 0) and
\* obj.treat_image(image, image_type) in src/bark_calculator_1 (r = 1),
\* for an object of class cls: the set of its outcomes.  No strategy reads
\* image_type.  BlackTrimmer defines no treat_image and inherits the
\* base's; the later V1 calls ColorFilter().treat_image(image) without
\* the image_type the later ColorFilter requires: TypeError.
treat_image(cls, r, image, image_type) ==
    CASE cls = "TreatmentMethod" -> { Raise("NotImplementedError") }
      [] cls = "BlackTrimmer" -> { Raise("NotImplementedError") }
      [] cls = "Grey" -> Grey_treat_image(image)
      [] cls = "EdgeDetection" -> EdgeDetection_treat_image(image)
      [] cls = "ComponentDetection" -> ComponentDetection_treat_image(image)
      [] cls = "Thresholding" -> Thresholding_treat_image(image)
      [] cls = "Identity" -> Identity_treat_image(image)
      [] cls = "BlackFilter" -> BlackFilter_treat_image(image)
      [] cls = "BlackMask" -> BlackMask_treat_image(image)
      [] cls = "ColorFilter" -> ColorFilter_treat_image(image)
      [] cls = "Entropy" -> Entropy_treat_image(image)
      [] cls = "V1" -> IF r = 0 THEN V1_treat_image(image)
                       ELSE { Raise("TypeError") }
      [] cls = "Equalizer" -> Equalizer_treat_image(image)
      [] cls = "V2" -> IF r = 0 THEN V2_early_treat_image(image)
                       ELSE V2_trim_treat_image(image)
      [] cls = "Upsampling" -> Upsampling_treat_image(image)

\* The number of rounds of the list comprehension: one per image in
\* src/bark_calculator, one per pair of zip(images, image_types) in
\* src/bark_calculator_1 (zip stops at the end of its shorter argument).
Rounds(r, images, image_types) ==
    IF r = 0 \/ Len(images) <= Len(image_types)
    THEN Len(images) ELSE Len(image_types)

\* The comprehension from round i on: the lists of results it can build,
\* or the exception of the first treat_image that raises.
RECURSIVE Comprehension(_, _, _, _, _, _)
Comprehension(cls, r, images, image_types, i, n) ==
    IF i > n THEN { Return(<<>>) }
    ELSE UNION {
        IF o.kind = "raise" THEN {o}
        ELSE { IF rest.kind = "raise" THEN rest
               ELSE Return(<<o.value>> \o rest.value) :
                 rest \in Comprehension(cls, r, images, image_types, i + 1, n) } :
          o \in treat_image(cls, r, images[i],
                            IF r = 0 THEN "" ELSE image_types[i]) }

treat_images(cls, r, images, image_types) ==
    { IF o.kind = "raise" THEN o ELSE Return(PyList(o.value)) :
        o \in Comprehension(cls, r, images, image_types, 1,
                            Rounds(r, images, image_types)) }

----------------------------------------------------------------------------
(* Specification SpecFrame: the operations that edit rasters, called on    *)
(* arrays the caller keeps.                                                *)

FrameImages(maxPainted) ==
    UNION { PaintedImages(n, n, 8, { Black, Grey3(50) }, GreyPalette,
                          maxPainted) : n \in CDSides }

\* Seed rasters as a caller builds them: labels 0, 1, 2 per cell.
MarkerRasters(n) ==
    PaintedImages(n, n, 1, {0, 1, 2}, {1, 2}, MaxPainted)

InitFrame ==
    /\ rev = 0
    /\ heap = <<>>
    /\ arrays = <<>>
    /\ call = NoCall

FrameBlackFilter ==
    /\ Idle
    /\ \E image \in FrameImages(MaxPainted) :
            Invoke("treat_image", "BlackFilter", <<image>>,
                   ReadOnly(<<image>>, BlackFilter_treat_image(image)))

FrameComponentDetection ==
    /\ Idle
    /\ \E image \in FrameImages(MaxPainted) :
            Invoke("treat_image", "ComponentDetection", <<image>>,
                   ReadOnly(<<image>>, ComponentDetection_treat_image(image)))

FrameWithMarkers ==
    /\ Idle
    /\ \E image \in FrameImages(MaxPainted) :
            \E markers \in MarkerRasters(image.h) :
                Invoke("treat_image_with_markers", "ComponentDetection",
                       <<image, markers>>,
                       ComponentDetection_treat_image_with_markers(image, markers))

\* The earlier V2 writes into np.copy(image), np.copy(hist) and
\* np.copy(ws_image) only.
FrameEarlyV2 ==
    /\ Idle
    /\ \E image \in FrameImages(MaxPainted) :
            Invoke("treat_image", "V2", <<image>>,
                   ReadOnly(<<image>>, V2_early_treat_image(image)))

NextFrame ==
    \/ FrameBlackFilter
    \/ FrameComponentDetection
    \/ FrameWithMarkers
    \/ FrameEarlyV2
    \/ TakeResult

SpecFrame == InitFrame /\ [][NextFrame]_vars

----------------------------------------------------------------------------
(* Specification SpecRunner: a caller holding one strategy of any class    *)
(* and calling treat_image and treat_images on it.                         *)

Classes(r) ==
    { "TreatmentMethod", "Grey", "EdgeDetection", "ComponentDetection",
      "Thresholding", "Identity", "BlackFilter", "BlackMask", "ColorFilter",
      "Entropy", "V1", "Equalizer", "V2" }
    \cup (IF r = 1 THEN { "BlackTrimmer", "Upsampling" } ELSE {})

\* An 8 x 8 mid-grey image, an 8 x 8 black image, and a 16 x 16 image of
\* four blocks of four greys.
RunnerImages ==
    { Raster(1, 1, 8, <<Grey3(50)>>),
      Raster(1, 1, 8, <<Black>>),
      Raster(2, 2, 8, <<Black, Grey3(25), Grey3(50), Grey3(75)>>) }

\* The images handed over in lists: the 8 x 8 ones.
RunnerListImages == { im \in RunnerImages : Shape(im) = <<8, 8>> }

ImageTypes == { "sapin", "epinette_gelee" }

\* src/bark_calculator passes no image type.
TypesOf(r) == IF r = 0 THEN { "" } ELSE ImageTypes

\* The longest list handed to treat_images.
MaxList == 2

ListsOf(S) == UNION { [1 .. n -> S] : n \in 0 .. MaxList }

\* A strategy that keeps the arguments of its last call in a field.
FieldsAfter_remembering(h, args) ==
    [h EXCEPT ![1] = [cls |-> h[1].cls, last |-> args]]

\* The heap after obj.treat_image(...) or obj.treat_images(...) on the
\* object h[1]: no method assigns to an attribute of self or of
\* self.black_masker outside __init__, and threshold_dict is never
\* written.
FieldsAfter(h, args) == h

InitRunner ==
    /\ rev \in {0, 1}
    /\ \E cls \in Classes(rev) : heap = New(cls, <<>>, rev)
    /\ arrays = <<>>
    /\ call = NoCall

TreatImage ==
    /\ Idle
    /\ \E image \in RunnerImages : \E image_type \in TypesOf(rev) :
          LET args == IF rev = 0 THEN <<image>>
                      ELSE <<image, PyStr(image_type)>>
          IN  \E e \in ReadOnly(args, treat_image(heap[1].cls, rev, image,
                                                   image_type)) :
                 /\ call' = [op |-> "treat_image", cls |-> heap[1].cls,
                             args |-> args, out |-> e.out, aux |-> e.aux]
                 /\ arrays' = e.args
                 /\ heap' = FieldsAfter(heap, args)
                 /\ UNCHANGED rev

TreatImages ==
    /\ Idle
    /\ \E images \in ListsOf(RunnerListImages) :
          \E image_types \in IF rev = 0 THEN { <<>> }
                             ELSE ListsOf(ImageTypes) :
             LET args == IF rev = 0 THEN <<PyList(images)>>
                         ELSE <<PyList(images), PyList(image_types)>>
             IN  \E e \in ReadOnly(args, treat_images(heap[1].cls, rev,
                                                       images, image_types)) :
                    /\ call' = [op |-> "treat_images", cls |-> heap[1].cls,
                                args |-> args, out |-> e.out, aux |-> e.aux]
                    /\ arrays' = e.args
                    /\ heap' = FieldsAfter(heap, args)
                    /\ UNCHANGED rev

NextRunner == TreatImage \/ TreatImages \/ TakeResult

SpecRunner == InitRunner /\ [][NextRunner]_vars

----------------------------------------------------------------------------
(* Specification SpecProjection: EdgeDetection.filtered_image, the         *)
(* projection step, on downscaled images of any shape.                     *)

\* Downscaled rasters (one pixel per cell), black or mid-grey with up to
\* maxPainted cells painted.
ProjectionImages(maxPainted) ==
    UNION { PaintedImages(h, w, 1, { Black, Grey3(50) }, GreyPalette,
                          maxPainted) : h \in CDSides, w \in CDSides }

\* self.filtered_image(image): the black mask of the image, then the
\* shared step.
EdgeDetection_filtered_image(image) ==
    ProjectionStep(image, make_mask(image))

InitProjection ==
    /\ rev = 0
    /\ heap = New("EdgeDetection", <<>>, 0)
    /\ arrays = <<>>
    /\ call = NoCall

FilteredImage ==
    /\ Idle
    /\ \E image \in ProjectionImages(MaxSeeds) :
            Invoke("filtered_image", heap[1].cls, <<image>>,
                   ReadOnly(<<image>>, EdgeDetection_filtered_image(image)))

NextProjection == FilteredImage \/ TakeResult

SpecProjection == InitProjection /\ [][NextProjection]_vars

----------------------------------------------------------------------------
(* Specification SpecSeeds: the strategies built on the projection step    *)
(* (ComponentDetection, Thresholding, EdgeDetection), on small square      *)
(* images of every combination of four greys.                              *)

SeedSides == {1, 2}

SeedImages ==
    UNION { { Raster(n, n, 8, d) : d \in [1 .. (n * n) -> GreyPalette] } :
              n \in SeedSides }

InitSeeds ==
    /\ rev = 0
    /\ heap = <<>>
    /\ arrays = <<>>
    /\ call = NoCall

SeedsComponentDetection ==
    /\ Idle
    /\ \E image \in SeedImages :
          Invoke("treat_image", "ComponentDetection", <<image>>,
                 { [out |-> r.out, aux |-> r.aux, args |-> <<image>>] :
                     r \in ComponentDetection_runs(image) })

SeedsThresholding ==
    /\ Idle
    /\ \E image \in SeedImages :
          Invoke("treat_image", "Thresholding", <<image>>,
                 { [out |-> r.out, aux |-> r.aux, args |-> <<image>>] :
                     r \in Thresholding_runs(image) })

SeedsEdgeDetection ==
    /\ Idle
    /\ \E image \in SeedImages :
          Invoke("treat_image", "EdgeDetection", <<image>>,
                 ReadOnly(<<image>>, EdgeDetection_treat_image(image)))

SeedsWithMarkers ==
    /\ Idle
    /\ \E image \in SeedImages :
          \E markers \in MarkerRasters(image.h) :
             Invoke("treat_image_with_markers", "ComponentDetection",
                    <<image, markers>>,
                    ComponentDetection_treat_image_with_markers(image, markers))

NextSeeds ==
    \/ SeedsComponentDetection
    \/ SeedsThresholding
    \/ SeedsEdgeDetection
    \/ SeedsWithMarkers
    \/ TakeResult

SpecSeeds == InitSeeds /\ [][NextSeeds]_vars

----------------------------------------------------------------------------
(* Claims about ComponentDetection.treat_image.                            *)

CDReturned ==
    /\ call.op = "treat_image"
    /\ call.cls = "ComponentDetection"
    /\ call.out.kind = "return"

\* The watershed label of cell k in the third output (ws_image = label/2).
LabelAt(ws_image, k) == ws_image.d[k][1] \div 50

\* C6: the labels of the third output are in {0, 1, 2}, and a cell's label
\* is 0 exactly when the black mask of the downscaled image is invalid
\* there.
C6_LabelZeroIffInvalid ==
    CDReturned =>
        LET ws_image == call.out.value.items[3]
            mask == make_mask(rescale(call.args[1], 1, 8))
        IN  \A k \in Cells(ws_image) :
              /\ ws_image.d[k] \in { Grey3(0), Grey3(50), Grey3(100) }
              /\ (LabelAt(ws_image, k) = 0) <=> ~mask.d[k]

\* C7 as stated: on an all-mid-grey square with a black corner block the
\* result has three elements and the third is 0 or 0.5 over the valid
\* region.
C7_CornerLabelsZeroOrHalf ==
    (CDReturned /\ call.args[1] \in CornerImages) =>
        LET ws_image == call.out.value.items[3]
            mask == make_mask(rescale(call.args[1], 1, 8))
        IN  /\ call.out.value.py = "list"
            /\ Len(call.out.value.items) = 3
            /\ \A k \in Cells(ws_image) :
                  mask.d[k] => ws_image.d[k] \in { Grey3(0), Grey3(50) }

\* C7 as amended: on such an image the call returns three elements and the
\* third is 1.0 at every valid cell and 0 at every cell of the black block
\* (and of a row the block darkens below the line threshold).
C7_CornerLabelsAllOne ==
    (call.op = "treat_image" /\ call.cls = "ComponentDetection"
        /\ call.args[1] \in CornerImages) =>
        /\ call.out.kind = "return"
        /\ call.out.value.py = "list"
        /\ Len(call.out.value.items) = 3
        /\ LET ws_image == call.out.value.items[3]
               small == rescale(call.args[1], 1, 8)
           IN  /\ Shape(ws_image) = Shape(small)
               /\ \A k \in Cells(small) :
                     ws_image.d[k] =
                        IF \/ small.d[k] = Black
                           \/ 10 * RowSum(GreyImage(small), RowOf(small, k))
                                 < small.w * 1000000
                        THEN Grey3(0) ELSE Grey3(100)

\* The 64 x 64 image with the 16 x 16 block has been treated.
C7_Witness ==
    /\ CDReturned
    /\ call.args[1] = CornerImage(8, 2, TRUE, TRUE)
    /\ Shape(call.args[1]) = <<64, 64>>
    /\ call.out.value.items[3].d[1] = Grey3(0)
    /\ call.out.value.items[3].d[64] = Grey3(100)

\* C9: no treatment operation modifies an array handed in by its caller:
\* when a call has completed, every array the caller passed holds the
\* values it held before the call.
C9_CallerArraysUnchanged ==
    call.op \in { "treat_image", "treat_image_with_markers" } =>
        arrays = call.args

\* C8: in ColorFilter.treat_image the reordering is a permutation of
\* {0,1,2,3} by descending centroid norm, and the label raster returned
\* last is the k-means assignment with that permutation applied to every
\* cell, so two cells share an output label exactly when k-means put them
\* in the same cluster.
C8_LabelsArePermutedAssignment ==
    (call.op = "treat_image" /\ call.cls = "ColorFilter"
        /\ call.out.kind = "return") =>
        LET fit == call.aux
            out == call.out.value.items[4].d
        IN  /\ { fit.sorted[a] : a \in 1 .. 4 } = Clusters
            /\ \A a \in 1 .. 3 :
                  Norm2(fit.cluster_centers[fit.sorted[a]])
                    >= Norm2(fit.cluster_centers[fit.sorted[a + 1]])
            /\ \A k \in DOMAIN out : out[k] = fit.sorted[fit.labels[k] + 1]
            /\ \A k, x \in DOMAIN out :
                  (out[k] = out[x]) <=> (fit.labels[k] = fit.labels[x])

\* A cell row of the resized raster is real content when at least 85% of
\* the pixels of (each of) its pixel rows have a channel sum above 1e-3.
IsContentBand(im, i) ==
    100 * Cardinality({ j \in 1 .. im.w :
                          10 * SumSeq(im.d[Idx(im, i, j)]) > 1 })
        * im.colpx >= 85 * 2048

\* C10: the later V2.treat_image resizes to 2048 x 2048 and returns
\* exactly the pixel rows from the first content row through the last
\* content row: a row is returned if and only if a content row lies at or
\* before it and a content row lies at or after it.
C10_ReturnsFirstToLastContentRow ==
    (call.op = "treat_image" /\ call.cls = "V2" /\ rev = 1) =>
        LET im == call.aux.resized
            rows == 0 .. (PixelRows(im) - 1)
            content == { i \in 1 .. im.h : IsContentBand(im, i) }
        IN  /\ call.out.kind = "return"
            /\ Shape(call.args[1]) = <<im.h * 8, im.w * 8>>
            /\ PixelRows(im) = 2048 /\ PixelCols(im) = 2048
            /\ PixelRows(call.out.value)
                 = Cardinality({ r \in rows : call.aux.first_idx <= r
                                               /\ r < call.aux.last_idx })
            /\ \A r \in rows :
                  (call.aux.first_idx <= r /\ r < call.aux.last_idx) <=>
                     /\ \E a \in content : a <= BandOf(im, r)
                     /\ \E b \in content : b >= BandOf(im, r)

\* C5: make_mask marks a cell valid exactly when its grey intensity is not
\* below 0.05 and the mean grey intensity of its row is not below 0.1.
C5_MaskIffBrightCellInBrightRow ==
    call.op = "make_mask" =>
        LET im == call.args[1]
            m == call.out.value
            grey(i, j) == rgb2grey(im.d[(i - 1) * im.w + j])
            rowTotal(i) == SumSeq([j \in 1 .. im.w |-> grey(i, j)])
        IN  /\ call.out.kind = "return"
            /\ \A i \in 1 .. im.h : \A j \in 1 .. im.w :
                  m.d[(i - 1) * im.w + j]
                    = (/\ 100 * grey(i, j) >= 5 * 1000000
                       /\ 10 * rowTotal(i) >= im.w * 1000000)

\* A bright cell (grey 0.25) in a row whose mean is below 0.1 is masked out.
C5_Witness ==
    /\ call.op = "make_mask"
    /\ \E k \in Cells(call.args[1]) :
          /\ rgb2grey(call.args[1].d[k]) >= 250000
          /\ RowSum(GreyImage(call.args[1]), RowOf(call.args[1], k))
                < DarkLine * call.args[1].w
          /\ call.out.value.d[k] = FALSE

\* C2: build_from_treatment_method_arg maps each of its seven names to a
\* newly constructed instance of the class of that name, leaving the
\* objects that existed untouched, and for every other name it returns
\* None, raises nothing and constructs nothing.
C2_BuilderMapsSevenNames ==
    call.op = "build_from_treatment_method_arg" =>
        LET name == call.args[1].s
            before == call.aux.before
            expected == [edge_detection |-> "EdgeDetection",
                         id |-> "Identity",
                         black_filter |-> "BlackFilter",
                         black_mask |-> "BlackMask",
                         color_filter |-> "ColorFilter",
                         component_detection |-> "ComponentDetection",
                         threshold |-> "Thresholding"]
        IN  /\ call.out.kind = "return"
            /\ IF name \in DOMAIN expected
               THEN /\ call.out.value.py = "object"
                    /\ call.out.value.ref \in (Len(before) + 1) .. Len(heap)
                    /\ heap[call.out.value.ref].cls = expected[name]
                    /\ SubSeq(heap, 1, Len(before)) = before
               ELSE /\ call.out.value = PyNone
                    /\ heap = before

\* A second black_mask strategy has been built while the first is alive,
\* and an unknown name has been answered with None.
C2_Witness ==
    /\ call.op = "build_from_treatment_method_arg"
    /\ \/ /\ call.args[1].s = "black_mask"
          /\ \E n \in 1 .. Len(call.aux.before) :
                call.aux.before[n].cls = "BlackMask"
          /\ heap[call.out.value.ref].cls = "BlackMask"
       \/ /\ call.args[1].s = "grey"
          /\ call.aux.before # <<>>
          /\ call.out.value = PyNone

\* C1: treat_images returns a list as long as the list of images, whatever
\* the length of the list of image types, and its i-th element is a result
\* of treat_image on the i-th image, in input order.
C1_TreatImagesMapsEveryImage ==
    (call.op = "treat_images" /\ call.out.kind = "return") =>
        LET images == call.args[1].items
            results == call.out.value.items
        IN  /\ call.out.value.py = "list"
            /\ Len(results) = Len(images)
            /\ \A i \in 1 .. Len(images) :
                  Return(results[i]) \in
                      treat_image(call.cls, rev, images[i],
                                  IF rev = 0 THEN ""
                                  ELSE call.args[2].items[i])

\* C3: treat_image on the abstract base always raises NotImplementedError,
\* and treat_images on the base raises it for every non-empty list of
\* images and returns the empty list only for an empty one.
C3_BaseNeverReturns ==
    (call.op \in { "treat_image", "treat_images" }
        /\ call.cls = "TreatmentMethod") =>
        /\ call.op = "treat_image" =>
              call.out = Raise("NotImplementedError")
        /\ call.op = "treat_images" =>
              call.out = IF call.args[1].items = <<>>
                         THEN Return(PyList(<<>>))
                         ELSE Raise("NotImplementedError")

\* C4: whenever treat_image of a concrete strategy completes, it returns a
\* non-empty list of images, never a bare raster.
C4_ReturnsNonEmptyList ==
    (call.op = "treat_image"
        /\ call.cls \in { "Grey", "EdgeDetection", "ComponentDetection",
                          "Thresholding", "Identity", "BlackFilter",
                          "BlackMask", "ColorFilter", "Entropy", "V1",
                          "Equalizer", "V2", "Upsampling" }
        /\ call.out.kind = "return") =>
        /\ call.out.value.py = "list"
        /\ Len(call.out.value.items) >= 1

\* A cell column of a cropped raster passes the coverage test when at
\* least 85% of its pixels have a channel sum above 1e-3.
ColumnIsContent(im, j) ==
    100 * Cardinality({ i \in 1 .. im.h : Summed(im, Idx(im, i, j)) })
        >= 85 * im.h

\* C11: the crop returned by the later V2.treat_image has its border
\* columns trimmed as well as its border rows: neither its first nor its
\* last column fails the 85% coverage test (stated for the images that have
\* a content row, whose crop is the span of their content rows).
C11_NoBlackBorderColumn ==
    (call.op = "treat_image" /\ call.cls = "V2" /\ rev = 1
        /\ call.out.kind = "return" /\ call.out.value.h > 0
        /\ \E i \in 1 .. call.aux.resized.h :
               IsContentBand(call.aux.resized, i)) =>
        /\ ColumnIsContent(call.out.value, 1)
        /\ ColumnIsContent(call.out.value, call.out.value.w)

\* C12: Identity.treat_image(img) returns a list whose only element is
\* img, every pixel unchanged, and leaves the caller's img as it was.
C12_IdentityReturnsImageItself ==
    (call.op = "treat_image" /\ call.cls = "Identity") =>
        /\ call.out.kind = "return"
        /\ call.out.value.py = "list"
        /\ Len(call.out.value.items) = 1
        /\ call.out.value.items[1] = call.args[1]
        /\ \A k \in Cells(call.args[1]) :
              call.out.value.items[1].d[k] = call.args[1].d[k]
        /\ arrays = call.args

\* Identity has treated the 16 x 16 image of four greys in the later
\* revision.
C12_Witness ==
    /\ call.op = "treat_image" /\ call.cls = "Identity" /\ rev = 1
    /\ Shape(call.args[1]) = <<16, 16>>
    /\ call.out.value.items[1].d[4] = Grey3(75)

\* C13: for a 3-channel image of any height and width make_mask returns a
\* boolean raster of the image's spatial shape, one entry per pixel.
C13_MaskHasShapeOfImage ==
    call.op = "make_mask" =>
        /\ call.out.kind = "return"
        /\ call.out.value.py = "ndarray"
        /\ Shape(call.out.value) = Shape(call.args[1])
        /\ DOMAIN call.out.value.d = Cells(call.args[1])
        /\ \A k \in Cells(call.args[1]) : call.out.value.d[k] \in BOOLEAN

\* A mask of a 2 x 3 image, with entries of both values.
C13_Witness ==
    /\ call.op = "make_mask"
    /\ Shape(call.args[1]) = <<2, 3>>
    /\ Shape(call.out.value) = <<2, 3>>
    /\ \E k, x \in Cells(call.out.value) :
          call.out.value.d[k] /\ ~call.out.value.d[x]

\* C14: in the projection step, for a downscaled image of any height and
\* width that has a valid pixel, the scatter does not fail, final_image
\* has the shape of the image, holds 0 at every invalid pixel, and holds
\* at every valid pixel (r, c) the inverted rescaled projection of that
\* pixel, a value in [0, 1].
C14_FinalImageAlignedWithImage ==
    (call.op = "filtered_image"
        /\ ValidCells(make_mask(call.args[1])) # {}) =>
        LET image == call.args[1]
            valid == ValidCells(make_mask(image))
            final == call.out.value
        IN  /\ call.out.kind = "return"
            /\ Shape(final) = Shape(image)
            /\ \E proj \in InvertedProjections(image, valid) :
                  /\ final.den = proj.den
                  /\ \A i \in 1 .. image.h : \A j \in 1 .. image.w :
                        LET k == (i - 1) * image.w + j
                            x == final.d[(i - 1) * final.w + j]
                        IN  /\ 0 <= x /\ x <= final.den
                            /\ x = IF k \in valid THEN proj.num[k] ELSE 0

\* C15: the markers ComponentDetection.treat_image hands to the watershed
\* are 2 at every valid pixel with final_image > 0.6, 1 at every valid
\* pixel with final_image < 0.45, and 0 at every other valid pixel and at
\* every invalid pixel; no other value occurs.
C15_MarkersByThresholdAndMask ==
    (call.op = "treat_image" /\ call.cls = "ComponentDetection"
        /\ call.aux # NoAux) =>
        LET f == call.aux.final_image
            markers == call.aux.markers
            mask == make_mask(rescale(call.args[1], 1, 8))
        IN  \A k \in Cells(mask) :
              markers.d[k] =
                 IF ~mask.d[k] THEN 0
                 ELSE IF 10 * f.d[k] > 6 * f.den THEN 2
                 ELSE IF 100 * f.d[k] < 45 * f.den THEN 1
                 ELSE 0

\* A run whose markers hold 2, 1, an unlabelled valid pixel (final_image
\* 0.5) and an invalid pixel.
C15_Witness ==
    /\ call.op = "treat_image" /\ call.cls = "ComponentDetection"
    /\ call.aux # NoAux
    /\ \E a, b, c, x \in Cells(call.aux.markers) :
          /\ call.aux.markers.d[a] = 2
          /\ call.aux.markers.d[b] = 1
          /\ call.aux.markers.d[c] = 0 /\ call.aux.black_mask.d[c]
          /\ 2 * call.aux.final_image.d[c] = call.aux.final_image.den
          /\ call.aux.markers.d[x] = 0 /\ ~call.aux.black_mask.d[x]

\* C16: in Thresholding.treat_image the markers handed to the watershed
\* are 1 or 2 at every valid pixel and 0 at every invalid pixel, the
\* result has exactly two elements, final_image then the labels, and the
\* labels are 0 at every invalid pixel and the pixel's own marker at
\* every valid pixel.
C16_ThresholdingLabelsAreMarkers ==
    (call.op = "treat_image" /\ call.cls = "Thresholding"
        /\ call.aux # NoAux) =>
        LET markers == call.aux.markers
            mask == make_mask(rescale(call.args[1], 1, 8))
        IN  /\ \A k \in Cells(mask) :
                  IF mask.d[k] THEN markers.d[k] \in {1, 2}
                  ELSE markers.d[k] = 0
            /\ call.out.kind = "return"
            /\ call.out.value.py = "list"
            /\ Len(call.out.value.items) = 2
            /\ call.out.value.items[1] = call.aux.final_image
            /\ \A k \in Cells(mask) :
                  call.out.value.items[2].d[k] =
                     IF mask.d[k] THEN markers.d[k] ELSE 0

\* Thresholding has labelled an image with pixels of both labels and an
\* invalid pixel.
C16_Witness ==
    /\ call.op = "treat_image" /\ call.cls = "Thresholding"
    /\ call.out.kind = "return"
    /\ \E a, b, x \in Cells(call.out.value.items[2]) :
          /\ call.out.value.items[2].d[a] = 1
          /\ call.out.value.items[2].d[b] = 2
          /\ call.out.value.items[2].d[x] = 0
          /\ ~call.aux.black_mask.d[x]

\* C17: in both revisions V1.treat_image completes on a square image with
\* a valid pixel and returns six images, the first being the downscaled
\* input (followed by ColorFilter's two diagnostic images,
\* ComponentDetection's blend and watershed image, and the watershed image
\* seeded from ColorFilter's extreme labels).
C17_V1ReturnsSixImages ==
    ( /\ call.op = "treat_image" /\ call.cls = "V1"
      /\ call.args[1].h = call.args[1].w
      /\ \E k \in Cells(rescale(call.args[1], 1, 8)) :
             make_mask(rescale(call.args[1], 1, 8)).d[k] ) =>
        /\ call.out.kind = "return"
        /\ call.out.value.py = "list"
        /\ Len(call.out.value.items) = 6
        /\ call.out.value.items[1] = rescale(call.args[1], 1, 8)

\* C18: when the downscaled input has no valid pixel (the mask is
\* all-False), ComponentDetection.treat_image, treat_image_with_markers,
\* Thresholding.treat_image and EdgeDetection.treat_image end in an error
\* outcome; no result sequence is returned.
C18_NoValidPixelRaises ==
    ( /\ call.op \in {"treat_image", "treat_image_with_markers"}
      /\ call.cls \in {"ComponentDetection", "Thresholding", "EdgeDetection"}
      /\ ValidCells(make_mask(rescale(call.args[1], 1, 8))) = {} ) =>
        call.out.kind = "raise"

\* treat_image_with_markers has been called with seeds of both labels on
\* an all-black 16 x 16 image and has raised.
C18_Witness ==
    /\ call.op = "treat_image_with_markers"
    /\ Shape(call.args[1]) = <<16, 16>>
    /\ \A k \in Cells(call.args[1]) : call.args[1].d[k] = Black
    /\ \E k \in Cells(call.args[2]) : call.args[2].d[k] = 2
    /\ call.out.kind = "raise"

\* C19: BlackMask.treat_image returns two elements, the original image and
\* a masked greyscale view of it, in which the visible pixels are exactly
\* the pixels make_mask marks valid.
C19_VisibleAreTheValid ==
    (call.op = "treat_image" /\ call.cls = "BlackMask") =>
        /\ call.out.kind = "return"
        /\ call.out.value.py = "list"
        /\ Len(call.out.value.items) = 2
        /\ call.out.value.items[1] = call.args[1]
        /\ call.out.value.items[2].py = "MaskedArray"
        /\ call.out.value.items[2].data = GreyImage(call.args[1])
        /\ Visible(call.out.value.items[2]) =
               ValidCells(make_mask(call.args[1]))

\* C20: across any sequence of treat_image and treat_images calls on one
\* strategy instance the instance's fields (EdgeDetection's and V2's
\* nested BlackMask helper and V2's threshold table included) stay as
\* constructed, and the outcome of a treat_image call is one of those its
\* class has on the call's arguments, whatever calls came before.
C20_FieldsStayAsConstructed ==
    /\ heap = New(heap[1].cls, <<>>, rev)
    /\ (call.op = "treat_image") =>
          call.out \in treat_image(call.cls, rev, call.args[1],
                        IF rev = 0 THEN "" ELSE call.args[2].s)

\* The later V2, holding its threshold table and its BlackMask helper,
\* has returned from treat_images on two images.
C20_Witness ==
    /\ call.op = "treat_images" /\ call.cls = "V2" /\ rev = 1
    /\ call.out.kind = "return"
    /\ Len(call.out.value.items) = 2
    /\ heap[1].threshold_dict.sapin = <<52, 64, 50, 70>>
    /\ heap[heap[1].black_masker.ref].cls = "BlackMask"

====
